---- MODULE Spec2Model ----
(***************************************************************************)
(* Memory bank controllers of rboy (src/mbc.rs): MBC0, MBC1 and MBC3 with  *)
(* its real-time clock, the loader get_mbc and the save files written on   *)
(* drop.                                                                   *)
(*                                                                         *)
(* A byte vector (~[u8]) is a record [len, nz]: its length and the set of  *)
(* <<index, byte>> pairs of its non-zero bytes (every other byte is 0).    *)
(* An Option<T> is a sequence: <<>> is None and <<x>> is Some(x).          *)
(***************************************************************************)
EXTENDS Integers, Sequences, FiniteSets, TLC

VARIABLES
    image,      \* the cartridge file read by get_mbc: [len, type, ramcode]
    mbc,        \* the device behind ~MBC (a record tagged by kind), or NoDevice
    now,        \* time::get_time().sec
    file,       \* the .gbsave file: <<>> when absent, <<bytes>> when present
    phase,      \* "unloaded", "live", "failed" (the task failed)
    ret,        \* value returned by the last readrom/readram (NoRet when none)
    err,        \* message of the failure that ended the task ("none" when none)
    lastEnable, \* <<v>>: the last value written to 0x0000-0x1FFF; <<>> before any
    lastBank,   \* <<v>>: the last value written to 0x2000-0x3FFF; <<>> before any
    torn,       \* <<d>>: the device d that drop just tore down; <<>> otherwise
    rtcWrites,  \* number of writes to the clock registers in this session
    lastLatch,  \* <<t>>: the instant the latch last called calc_rtc_reg; <<>> before
    written     \* <<regs>>: the clock registers as a writeram just left them, no
                \* derivation and no clock movement since; <<>> otherwise

vars ==
    <<image, mbc, now, file, phase, ret, err, lastEnable, lastBank, torn,
      rtcWrites, lastLatch, written>>

----------------------------------------------------------------------------
(* Bounds of the model *)

\* number of non-zero bytes the save memory may hold
MaxDirty == 1
\* number of writes to the clock registers in one session
MaxRtcWrites == 2

----------------------------------------------------------------------------
(* u8 / u32 arithmetic *)

RECURSIVE BitAnd(_, _)
BitAnd(x, y) ==
    IF x = 0 \/ y = 0 THEN 0
    ELSE (IF x % 2 = 1 /\ y % 2 = 1 THEN 1 ELSE 0) + 2 * BitAnd(x \div 2, y \div 2)

RECURSIVE BitOr(_, _)
BitOr(x, y) ==
    IF x = 0 THEN y
    ELSE IF y = 0 THEN x
    ELSE (IF x % 2 = 1 \/ y % 2 = 1 THEN 1 ELSE 0) + 2 * BitOr(x \div 2, y \div 2)

RECURSIVE Pow2(_)
Pow2(n) == IF n = 0 THEN 1 ELSE 2 * Pow2(n - 1)

Shl(x, n) == x * Pow2(n)
Shr(x, n) == x \div Pow2(n)

\* `x as u8`
AsU8(x) == x % 256

----------------------------------------------------------------------------
(* Byte vectors *)

NoRet == -1
Oob == -2

\* ::std::vec::from_elem(n, 0u8)
ZeroVec(n) == [len |-> n, nz |-> {}]

\* vec[i]: the byte, or Oob when the bounds check fails the task.  A negative
\* i stands for a u32 that wrapped below zero (2^32 + i), beyond every length.
VecGet(vec, i) ==
    IF i < 0 \/ i >= vec.len THEN Oob
    ELSE IF \E p \in vec.nz : p[1] = i
         THEN (CHOOSE p \in vec.nz : p[1] = i)[2]
         ELSE 0

\* vec[i] = v, inside the bounds
VecSet(vec, i, v) ==
    [vec EXCEPT !.nz = {p \in @ : p[1] # i} \cup (IF v = 0 THEN {} ELSE {<<i, v>>})]

InBounds(vec, i) == i >= 0 /\ i < vec.len

----------------------------------------------------------------------------
(* The cartridge image *)

\* byte of the image outside its header: it tells the banks and offsets apart
RomFill(i) == ((i \div 16384) * 7 + (i % 16384) * 3 + 1) % 256

\* data[i] of the image read by get_mbc (Oob outside it)
RomAt(data, i) ==
    IF i < 0 \/ i >= data.len THEN Oob
    ELSE IF i = 327 THEN data.type          \* 0x147
    ELSE IF i = 329 THEN data.ramcode       \* 0x149
    ELSE RomFill(i)

\* ram_size with the sizes of codes 1 and 2 exchanged
ram_size_swapped(v) ==
    CASE v = 1 -> 8192
      [] v = 2 -> 2048
      [] v = 3 -> 32768
      [] OTHER -> 0

ram_size(v) ==
    CASE v = 1 -> 2048          \* 0x800
      [] v = 2 -> 8192          \* 0x2000
      [] v = 3 -> 32768         \* 0x8000
      [] OTHER -> 0

----------------------------------------------------------------------------
(* Save files *)

\* file.write_be_i64(t): the eight bytes of t, most significant first
\* (t is inside the 32-bit range here, so the upper four bytes are its sign)
BeByte(t, k) ==
    IF k < 4 THEN (IF t < 0 THEN 255 ELSE 0)
    ELSE (t \div Pow2(8 * (7 - k))) % 256

\* file.read_be_i64(): the signed value of eight bytes b[1..8]
ReadBeI64(b) ==
    (IF b[5] >= 128 THEN b[5] - 256 ELSE b[5]) * 16777216
        + b[6] * 65536 + b[7] * 256 + b[8]

\* the first eight bytes of a file
Head8(f) == [k \in 1..8 |-> VecGet(f, k - 1)]

\* file.read_to_end() after the first n bytes were read
Rest(f, n) ==
    [len |-> f.len - n, nz |-> {<<p[1] - n, p[2]>> : p \in {q \in f.nz : q[1] >= n}}]

\* the bytes MBC3's drop writes: the epoch, then the ram
EpochThenRam(t, ram) ==
    [len |-> 8 + ram.len,
     nz  |-> {<<k, BeByte(t, k)>> : k \in {j \in 0..7 : BeByte(t, j) # 0}}
                \cup {<<p[1] + 8, p[2]>> : p \in ram.nz}]

----------------------------------------------------------------------------
(* The devices *)

NoDevice == [kind |-> "none"]

\* fail!(msg), or a bounds check that fails the task
Fail(msg) == [kind |-> "fail", msg |-> msg]

OobMsg == "index out of bounds"

MBC0_new(data) == [kind |-> "MBC0", rom |-> data]

\* MBC1::loadram
MBC1_loadram(d, f) ==
    IF d.savepath = <<>> THEN d
    ELSE IF f # <<>> THEN [d EXCEPT !.ram = f[1]]
    ELSE d

\* MBC1::new
MBC1_new(data, f) ==
    LET type == RomAt(data, \H147)
        reads149 == type \in {2, 3}
        svpath == IF type = 3 THEN <<"gbsave">> ELSE <<>>
        ramsize == IF reads149 THEN ram_size(RomAt(data, \H149)) ELSE 0
    IN  IF reads149 /\ RomAt(data, \H149) = Oob THEN Fail(OobMsg)
        ELSE MBC1_loadram(
                [kind |-> "MBC1", rom |-> data, ram |-> ZeroVec(ramsize),
                 ram_on |-> FALSE, ram_mode |-> FALSE, rombank |-> 1,
                 rambank |-> 0, savepath |-> svpath], f)

\* MBC1_drop writing the ram whether or not there is a save path
MBC1_drop_always(d, f) == <<d.ram>>

\* Drop for MBC1: the file after drop
MBC1_drop(d, f) == IF d.savepath = <<>> THEN f ELSE <<d.ram>>

\* MBC3_loadram taking the file's epoch whether or not the device has a clock
MBC3_loadram_adopts(d, f) ==
    IF d.savepath = <<>> THEN d
    ELSE IF f # <<>> THEN
        IF f[1].len < 8 THEN Fail("end of file")
        ELSE [d EXCEPT !.rtc_zero = <<ReadBeI64(Head8(f[1]))>>,
                       !.ram = Rest(f[1], 8)]
    ELSE d

\* MBC3::loadram (read_be_i64 fails the task on a file shorter than 8 bytes)
MBC3_loadram(d, f) ==
    IF d.savepath = <<>> THEN d
    ELSE IF f # <<>> THEN
        IF f[1].len < 8 THEN Fail("end of file")
        ELSE LET rtc == ReadBeI64(Head8(f[1]))
             IN  [d EXCEPT !.rtc_zero = IF @ # <<>> THEN <<rtc>> ELSE @,
                           !.ram = Rest(f[1], 8)]
    ELSE d

\* MBC3::new
MBC3_new(data, f) ==
    LET subtype == RomAt(data, \H147)
        svpath == IF subtype \in {\H0F, \H10, \H13} THEN <<"gbsave">> ELSE <<>>
        reads149 == subtype \in {\H10, \H12, \H13}
        ramsize == IF reads149 THEN ram_size(RomAt(data, \H149)) ELSE 0
        rtc == IF subtype \in {\H0F, \H10} THEN <<0>> ELSE <<>>
    IN  IF reads149 /\ RomAt(data, \H149) = Oob THEN Fail(OobMsg)
        ELSE MBC3_loadram(
                [kind |-> "MBC3", rom |-> data, ram |-> ZeroVec(ramsize),
                 rombank |-> 1, rambank |-> 0, ram_on |-> FALSE,
                 savepath |-> svpath, rtc_ram |-> <<0, 0, 0, 0, 0>>,
                 rtc_lock |-> FALSE, rtc_zero |-> rtc], f)

\* Drop for MBC3: the file after drop
MBC3_drop(d, f) ==
    IF d.savepath = <<>> THEN f
    ELSE <<EpochThenRam(IF d.rtc_zero # <<>> THEN d.rtc_zero[1] ELSE 0, d.ram)>>

\* get_mbc
get_mbc(data, f) ==
    IF data.len < \H149 THEN Fail("Rom size to small")
    ELSE LET m == RomAt(data, \H147)
         IN  CASE m = 0 -> MBC0_new(data)
               [] m \in 1..3 -> MBC1_new(data, f)
               [] m \in \H0F..\H13 -> MBC3_new(data, f)
               [] OTHER -> Fail("Unsupported MBC type")

----------------------------------------------------------------------------
(* MBC3's clock *)

\* calc_rtc_zero taking the day count from the day-low register alone
calc_rtc_zero_nodayhigh(d, t) ==
    IF d.rtc_zero = <<>> THEN d
    ELSE [d EXCEPT !.rtc_zero =
            <<t - d.rtc_ram[1] - d.rtc_ram[2] * 60 - d.rtc_ram[3] * 3600
                - d.rtc_ram[4] * 3600 * 24>>]

\* MBC3::calc_rtc_zero, with time::get_time().sec = t
calc_rtc_zero(d, t) ==
    IF d.rtc_zero = <<>> THEN d
    ELSE LET d0 == t
             d1 == d0 - d.rtc_ram[1]
             d2 == d1 - d.rtc_ram[2] * 60
             d3 == d2 - d.rtc_ram[3] * 3600
             days == BitOr(Shl(BitAnd(d.rtc_ram[5], 1), 8), d.rtc_ram[4])
             d4 == d3 - days * 3600 * 24
         IN  [d EXCEPT !.rtc_zero = <<d4>>]

\* calc_rtc_reg without the test of the halt flag
calc_rtc_reg_nohalt(d, t) ==
    IF d.rtc_zero = <<>> THEN d
    ELSE LET tzero == d.rtc_zero[1]
             difftime == IF t - tzero >= 0 THEN t - tzero ELSE 0
             days == difftime \div (3600 * 24)
             regs == <<AsU8(difftime % 60),
                       AsU8((difftime \div 60) % 60),
                       AsU8((difftime \div 3600) % 24),
                       AsU8(days),
                       BitOr(BitAnd(d.rtc_ram[5], \HFE), AsU8(BitAnd(Shr(days, 8), 1)))>>
             d1 == [d EXCEPT !.rtc_ram = regs]
         IN  IF days >= 512
             THEN calc_rtc_zero([d1 EXCEPT !.rtc_ram[5] = BitOr(@, \H80)], t)
             ELSE d1

\* calc_rtc_reg without the clamp of a negative time difference to 0
calc_rtc_reg_noclamp(d, t) ==
    IF d.rtc_zero = <<>> THEN d
    ELSE IF BitAnd(d.rtc_ram[5], \H40) = \H40 THEN d
    ELSE LET tzero == d.rtc_zero[1]
             difftime == t - tzero
             days == difftime \div (3600 * 24)
             regs == <<AsU8(difftime % 60),
                       AsU8((difftime \div 60) % 60),
                       AsU8((difftime \div 3600) % 24),
                       AsU8(days),
                       BitOr(BitAnd(d.rtc_ram[5], \HFE), AsU8((days \div 256) % 2))>>
             d1 == [d EXCEPT !.rtc_ram = regs]
         IN  IF days >= 512
             THEN calc_rtc_zero([d1 EXCEPT !.rtc_ram[5] = BitOr(@, \H80)], t)
             ELSE d1

\* calc_rtc_reg keeping only bits 1-6 of the flags (mask 0x7E for 0xFE)
calc_rtc_reg_dropscarry(d, t) ==
    IF d.rtc_zero = <<>> THEN d
    ELSE IF BitAnd(d.rtc_ram[5], \H40) = \H40 THEN d
    ELSE LET tzero == d.rtc_zero[1]
             difftime == IF t - tzero >= 0 THEN t - tzero ELSE 0
             days == difftime \div (3600 * 24)
             regs == <<AsU8(difftime % 60),
                       AsU8((difftime \div 60) % 60),
                       AsU8((difftime \div 3600) % 24),
                       AsU8(days),
                       BitOr(BitAnd(d.rtc_ram[5], \H7E), AsU8(BitAnd(Shr(days, 8), 1)))>>
             d1 == [d EXCEPT !.rtc_ram = regs]
         IN  IF days >= 512
             THEN calc_rtc_zero([d1 EXCEPT !.rtc_ram[5] = BitOr(@, \H80)], t)
             ELSE d1

\* MBC3::calc_rtc_reg, with time::get_time().sec = t
calc_rtc_reg(d, t) ==
    IF d.rtc_zero = <<>> THEN d
    ELSE IF BitAnd(d.rtc_ram[5], \H40) = \H40 THEN d
    ELSE LET tzero == d.rtc_zero[1]
             difftime == IF t - tzero >= 0 THEN t - tzero ELSE 0
             days == difftime \div (3600 * 24)
             regs == <<AsU8(difftime % 60),
                       AsU8((difftime \div 60) % 60),
                       AsU8((difftime \div 3600) % 24),
                       AsU8(days),
                       BitOr(BitAnd(d.rtc_ram[5], \HFE), AsU8(BitAnd(Shr(days, 8), 1)))>>
             d1 == [d EXCEPT !.rtc_ram = regs]
         IN  IF days >= 512
             THEN calc_rtc_zero([d1 EXCEPT !.rtc_ram[5] = BitOr(@, \H80)], t)
             ELSE d1

----------------------------------------------------------------------------
(* impl MBC for MBC0 *)

MBC0_readrom(d, a) == RomAt(d.rom, a)
MBC0_readram(d, a) == 0
MBC0_writerom(d, a, v) == d
MBC0_writeram(d, a, v) == d

----------------------------------------------------------------------------
(* impl MBC for MBC1 *)

MBC1_readrom(d, a) ==
    IF a < \H4000 THEN RomAt(d.rom, a)
    ELSE RomAt(d.rom, BitOr(d.rombank * \H4000, BitAnd(a, \H3FFF)))

\* MBC1_ramindex using rambank whatever ram_mode is
MBC1_ramindex_nomode(d, a) == BitOr(d.rambank * \H2000, a)

\* index of the ram byte readram and writeram address
MBC1_ramindex(d, a) ==
    LET rambank == IF d.ram_mode THEN d.rambank ELSE 0
    IN  BitOr(rambank * \H2000, a)

MBC1_readram(d, a) ==
    IF ~d.ram_on THEN 0
    ELSE VecGet(d.ram, MBC1_ramindex(d, a))

\* ram_on_write testing only the low four bits of the value
ram_on_write_lownibble(v) == (BitAnd(v, \H0F) = \H0A)

\* the 0x0000-0x1FFF arm of writerom (the same in MBC1 and MBC3)
ram_on_write(v) == (v = \H0A)

\* MBC1_rombank_low without the coercion of bank 0 to bank 1
MBC1_rombank_low_nocoerce(rombank, v) ==
    BitOr(BitAnd(rombank, \H60), BitAnd(v, \H1F))

\* the 0x2000-0x3FFF arm of MBC1::writerom
MBC1_rombank_low(rombank, v) ==
    BitOr(BitAnd(rombank, \H60),
          IF BitAnd(v, \H1F) = 0 THEN 1 ELSE BitAnd(v, \H1F))

\* MBC1_bank_high with the test of ram_mode inverted
MBC1_bank_high_swapped(d, v) ==
    IF d.ram_mode
    THEN [d EXCEPT !.rombank = BitOr(BitAnd(@, \H1F), Shl(BitAnd(v, \H03), 5))]
    ELSE [d EXCEPT !.rambank = BitAnd(v, \H03)]

\* the 0x4000-0x5FFF arm of MBC1::writerom
MBC1_bank_high(d, v) ==
    IF ~d.ram_mode
    THEN [d EXCEPT !.rombank = BitOr(BitAnd(@, \H1F), Shl(BitAnd(v, \H03), 5))]
    ELSE [d EXCEPT !.rambank = BitAnd(v, \H03)]

MBC1_writerom(d, a, v) ==
    CASE a \in \H0000..\H1FFF -> [d EXCEPT !.ram_on = ram_on_write(v)]
      [] a \in \H2000..\H3FFF -> [d EXCEPT !.rombank = MBC1_rombank_low(@, v)]
      [] a \in \H4000..\H5FFF -> MBC1_bank_high(d, v)
      [] a \in \H6000..\H7FFF -> [d EXCEPT !.ram_mode = (BitAnd(v, \H01) = \H01)]
      [] OTHER -> Fail("Could not write (MBC1)")

MBC1_writeram(d, a, v) ==
    IF ~d.ram_on THEN d
    ELSE IF ~InBounds(d.ram, MBC1_ramindex(d, a)) THEN Fail(OobMsg)
    ELSE [d EXCEPT !.ram = VecSet(@, MBC1_ramindex(d, a), v)]

----------------------------------------------------------------------------
(* impl MBC for MBC3 *)

MBC3_readrom(d, a) ==
    IF a < \H4000 THEN RomAt(d.rom, a)
    ELSE RomAt(d.rom, BitOr(d.rombank * \H4000, BitAnd(a, \H3FFF)))

\* index of the ram byte addressed when rambank <= 3
MBC3_ramindex(d, a) == BitOr(d.rambank * \H2000, BitAnd(a, \H1FFF))

\* index of the clock register addressed when rambank > 3: a u32 subtraction;
\* a negative result stands for the wrapped value 2^32 + (rambank - 8)
MBC3_rtcindex(d) == d.rambank - \H08

\* rtc_ram[i] with its bounds check
RtcGet(rtc_ram, i) == IF i < 0 \/ i >= 5 THEN Oob ELSE rtc_ram[i + 1]

MBC3_readram(d, a) ==
    IF ~d.ram_on THEN 0
    ELSE IF d.rambank <= 3 THEN VecGet(d.ram, MBC3_ramindex(d, a))
    ELSE RtcGet(d.rtc_ram, MBC3_rtcindex(d))

\* the 0x2000-0x3FFF arm of MBC3::writerom
MBC3_rombank(v) == IF BitAnd(v, \H7F) = 0 THEN 1 ELSE BitAnd(v, \H7F)

\* MBC3_latch without the test of rtc_lock: every 1 recomputes the registers
MBC3_latch_nolock(d, v, t) ==
    CASE v = 0 -> [d EXCEPT !.rtc_lock = FALSE]
      [] v = 1 -> [calc_rtc_reg(d, t) EXCEPT !.rtc_lock = TRUE]
      [] OTHER -> d

\* the 0x6000-0x7FFF arm of MBC3::writerom
MBC3_latch(d, v, t) ==
    CASE v = 0 -> [d EXCEPT !.rtc_lock = FALSE]
      [] v = 1 -> [(IF ~d.rtc_lock THEN calc_rtc_reg(d, t) ELSE d)
                        EXCEPT !.rtc_lock = TRUE]
      [] OTHER -> d

\* MBC3_writerom whose last window takes in the address after its end
MBC3_writerom_wide(d, a, v, t) ==
    CASE a \in \H0000..\H1FFF -> [d EXCEPT !.ram_on = ram_on_write(v)]
      [] a \in \H2000..\H3FFF -> [d EXCEPT !.rombank = MBC3_rombank(v)]
      [] a \in \H4000..\H5FFF -> [d EXCEPT !.rambank = v]
      [] a \in \H6000..\H8000 -> MBC3_latch(d, v, t)
      [] OTHER -> Fail("Could not write (MBC3)")

MBC3_writerom(d, a, v, t) ==
    CASE a \in \H0000..\H1FFF -> [d EXCEPT !.ram_on = ram_on_write(v)]
      [] a \in \H2000..\H3FFF -> [d EXCEPT !.rombank = MBC3_rombank(v)]
      [] a \in \H4000..\H5FFF -> [d EXCEPT !.rambank = v]
      [] a \in \H6000..\H7FFF -> MBC3_latch(d, v, t)
      [] OTHER -> Fail("Could not write (MBC3)")

MBC3_writeram(d, a, v, t) ==
    IF d.ram_on = FALSE THEN d
    ELSE IF d.rambank <= 3 THEN
        IF ~InBounds(d.ram, MBC3_ramindex(d, a)) THEN Fail(OobMsg)
        ELSE [d EXCEPT !.ram = VecSet(@, MBC3_ramindex(d, a), v)]
    ELSE IF RtcGet(d.rtc_ram, MBC3_rtcindex(d)) = Oob THEN Fail(OobMsg)
    ELSE calc_rtc_zero([d EXCEPT !.rtc_ram[MBC3_rtcindex(d) + 1] = v], t)

----------------------------------------------------------------------------
(* The trait object ~MBC: dispatch on the device's kind *)

readrom(d, a) ==
    CASE d.kind = "MBC0" -> MBC0_readrom(d, a)
      [] d.kind = "MBC1" -> MBC1_readrom(d, a)
      [] d.kind = "MBC3" -> MBC3_readrom(d, a)

readram(d, a) ==
    CASE d.kind = "MBC0" -> MBC0_readram(d, a)
      [] d.kind = "MBC1" -> MBC1_readram(d, a)
      [] d.kind = "MBC3" -> MBC3_readram(d, a)

writerom(d, a, v, t) ==
    CASE d.kind = "MBC0" -> MBC0_writerom(d, a, v)
      [] d.kind = "MBC1" -> MBC1_writerom(d, a, v)
      [] d.kind = "MBC3" -> MBC3_writerom(d, a, v, t)

writeram(d, a, v, t) ==
    CASE d.kind = "MBC0" -> MBC0_writeram(d, a, v)
      [] d.kind = "MBC1" -> MBC1_writeram(d, a, v)
      [] d.kind = "MBC3" -> MBC3_writeram(d, a, v, t)

\* the destructor run when the owner lets go of the device (MBC0 has none)
drop(d, f) ==
    CASE d.kind = "MBC0" -> f
      [] d.kind = "MBC1" -> MBC1_drop(d, f)
      [] d.kind = "MBC3" -> MBC3_drop(d, f)

----------------------------------------------------------------------------
(* Operations: the loader, the four bus calls, the clock and the teardown *)

\* get_mbc(file).  A failure in get_mbc or in the reads of the header leaves
\* nothing to drop; a failure of MBC3::loadram unwinds through MBC3::new,
\* which drops the device it had built (its destructor writes the file).
Load ==
    /\ phase = "unloaded"
    /\ LET r == get_mbc(image, file)
       IN  IF r.kind = "fail"
           THEN /\ mbc' = NoDevice
                /\ phase' = "failed"
                /\ err' = r.msg
           ELSE /\ mbc' = r
                /\ phase' = "live"
                /\ err' = "none"
    /\ ret' = NoRet
    /\ lastEnable' = <<>>
    /\ lastBank' = <<>>
    /\ torn' = <<>>
    /\ rtcWrites' = 0
    /\ lastLatch' = <<>>
    /\ written' = <<>>
    /\ file' = IF get_mbc(image, file) = Fail("end of file")
               THEN MBC3_drop(MBC3_new(image, <<>>), file)
               ELSE file
    /\ UNCHANGED <<image, now>>

\* mbc.readrom(a)
ReadRom(a) ==
    /\ phase = "live"
    /\ LET r == readrom(mbc, a)
       IN  IF r = Oob
           THEN phase' = "failed" /\ err' = OobMsg /\ ret' = NoRet
           ELSE phase' = "live" /\ err' = "none" /\ ret' = r
    /\ UNCHANGED <<image, mbc, now, file, lastEnable, lastBank, torn, rtcWrites,
                   lastLatch, written>>

\* mbc.readram(a)
ReadRam(a) ==
    /\ phase = "live"
    /\ LET r == readram(mbc, a)
       IN  IF r = Oob
           THEN phase' = "failed" /\ err' = OobMsg /\ ret' = NoRet
           ELSE phase' = "live" /\ err' = "none" /\ ret' = r
    /\ UNCHANGED <<image, mbc, now, file, lastEnable, lastBank, torn, rtcWrites,
                   lastLatch, written>>

\* whether writerom(a, v) on d makes the latch call calc_rtc_reg
LatchCalls(d, a, v) ==
    d.kind = "MBC3" /\ a \in \H6000..\H7FFF /\ v = 1 /\ ~d.rtc_lock

\* mbc.writerom(a, v)
WriteRom(a, v) ==
    /\ phase = "live"
    /\ LET r == writerom(mbc, a, v, now)
       IN  IF r.kind = "fail"
           THEN /\ phase' = "failed" /\ err' = r.msg
                /\ UNCHANGED <<mbc, lastEnable, lastBank, lastLatch, written>>
           ELSE /\ phase' = "live" /\ err' = "none"
                /\ mbc' = r
                /\ lastEnable' = IF a <= \H1FFF THEN <<v>> ELSE lastEnable
                /\ lastBank' = IF a \in \H2000..\H3FFF THEN <<v>> ELSE lastBank
                /\ lastLatch' = IF LatchCalls(mbc, a, v) THEN <<now>> ELSE lastLatch
                /\ written' = IF LatchCalls(mbc, a, v) THEN <<>> ELSE written
    /\ ret' = NoRet
    /\ UNCHANGED <<image, now, file, torn, rtcWrites>>

\* number of non-zero bytes of the device's save memory
Dirty(d) == IF d.kind \in {"MBC1", "MBC3"} THEN Cardinality(d.ram.nz) ELSE 0

\* whether writeram on d stores into a clock register
WritesRtc(d) == d.kind = "MBC3" /\ d.ram_on /\ d.rambank > 3

\* mbc.writeram(a, v)
WriteRam(a, v) ==
    /\ phase = "live"
    /\ LET r == writeram(mbc, a, v, now)
       IN  IF r.kind = "fail"
           THEN /\ phase' = "failed" /\ err' = r.msg
                /\ UNCHANGED <<mbc, rtcWrites, written>>
           ELSE /\ Dirty(r) <= MaxDirty
                /\ rtcWrites' = IF WritesRtc(mbc) THEN rtcWrites + 1 ELSE rtcWrites
                /\ rtcWrites' <= MaxRtcWrites
                /\ phase' = "live" /\ err' = "none"
                /\ mbc' = r
                /\ written' = IF WritesRtc(mbc) THEN <<r.rtc_ram>> ELSE written
    /\ ret' = NoRet
    /\ UNCHANGED <<image, now, file, lastEnable, lastBank, torn, lastLatch>>

\* the wall clock advances to a later instant
Tick(t) ==
    /\ t > now
    /\ now' = t
    /\ written' = <<>>
    /\ UNCHANGED <<image, mbc, file, phase, ret, err, lastEnable, lastBank, torn,
                   rtcWrites, lastLatch>>

\* the wall clock is set back to an earlier instant (time::get_time() reads
\* the system's clock, which its owner may adjust)
SetBack(t) ==
    /\ t < now
    /\ now' = t
    /\ written' = <<>>
    /\ UNCHANGED <<image, mbc, file, phase, ret, err, lastEnable, lastBank, torn,
                   rtcWrites, lastLatch>>

\* the owner lets go of the device, at the end of the session or while a
\* failed task unwinds: the destructor runs
Drop ==
    /\ phase \in {"live", "failed"}
    /\ mbc # NoDevice
    /\ file' = drop(mbc, file)
    /\ torn' = <<mbc>>
    /\ mbc' = NoDevice
    /\ phase' = "unloaded"
    /\ ret' = NoRet
    /\ written' = <<>>
    /\ UNCHANGED <<image, now, err, lastEnable, lastBank, rtcWrites, lastLatch>>

----------------------------------------------------------------------------
(* Inputs *)

\* every image of the given cartridge types, ram-size codes and lengths
Images(types, codes, lens) ==
    {[len |-> l, type |-> ty, ramcode |-> c] : l \in lens, ty \in types, c \in codes}

\* seconds in n days
Days(n) == n * 3600 * 24

\* before get_mbc is called: no device, no save file
InitUnloaded(images, instants) ==
    /\ image \in images
    /\ mbc = NoDevice
    /\ now \in instants
    /\ file = <<>>
    /\ phase = "unloaded"
    /\ ret = NoRet
    /\ err = "none"
    /\ lastEnable = <<>>
    /\ lastBank = <<>>
    /\ torn = <<>>
    /\ rtcWrites = 0
    /\ lastLatch = <<>>
    /\ written = <<>>

\* right after get_mbc returned a device, no save file being there
InitLive(images, instants) ==
    /\ image \in images
    /\ get_mbc(image, <<>>).kind # "fail"
    /\ mbc = get_mbc(image, <<>>)
    /\ now \in instants
    /\ file = <<>>
    /\ phase = "live"
    /\ ret = NoRet
    /\ err = "none"
    /\ lastEnable = <<>>
    /\ lastBank = <<>>
    /\ torn = <<>>
    /\ rtcWrites = 0
    /\ lastLatch = <<>>
    /\ written = <<>>

----------------------------------------------------------------------------
(* SpecB: one session on an MBC1, every control window with values that    *)
(* reach each bit of the bank registers                                    *)

ImagesB == Images({\H01}, {0}, {\H8000}) \cup Images({\H03}, {3}, {\H200000})
RomAddrsB == {\H0000, \H4000, \H7FFF}
RamAddrsB == {\H0000, \H1FFF, \HA000}
CtlWritesB ==
    ({\H0000, \H1FFF} \X {\H0A, \H00})
        \cup ({\H2000, \H3FFF} \X {\H00, \H02, \H20, \HFF})
        \cup ({\H4000, \H5FFF} \X {\H00, \H01, \H06})
        \cup ({\H6000, \H7FFF} \X {\H00, \H01, \H02})
RamWritesB == {\H0000, \H1FFF} \X {\H00, \H5A}

InitB == InitLive(ImagesB, {0})

NextB ==
    \/ \E a \in RomAddrsB : ReadRom(a)
    \/ \E a \in RamAddrsB : ReadRam(a)
    \/ \E w \in CtlWritesB : WriteRom(w[1], w[2])
    \/ \E w \in RamWritesB : WriteRam(w[1], w[2])

SpecB == InitB /\ [][NextB]_vars

----------------------------------------------------------------------------
(* SpecC: one session on an MBC3 while the wall clock moves: the latch      *)
(* window, the clock registers selected through rambank, and instants on   *)
(* both sides of the 256- and 512-day marks of the day counter             *)

ImagesC == Images({\H0F, \H11}, {0}, {\H8000})
InstantsC == {0, 61, Days(300) + 3723, Days(600) + 86399}
RomAddrsC == {\H4000}
RamAddrsC == {\HA000}
CtlWritesC ==
    ({\H0000} \X {\H0A, \H00})
        \cup ({\H4000} \X {\H00, \H08, \H0C})
        \cup ({\H6000} \X {\H00, \H01, \H02})
RamWritesC == {\HA000} \X {\H00, \H40, \HC1}

InitC == InitLive(ImagesC, {0})

NextC ==
    \/ \E a \in RomAddrsC : ReadRom(a)
    \/ \E a \in RamAddrsC : ReadRam(a)
    \/ \E w \in CtlWritesC : WriteRom(w[1], w[2])
    \/ \E w \in RamWritesC : WriteRam(w[1], w[2])
    \/ \E t \in InstantsC : Tick(t)

SpecC == InitC /\ [][NextC]_vars

----------------------------------------------------------------------------------------------------------------------------------------
(* Spec: one session on a cartridge of each kind, with and without ram,    *)
(* battery and clock                                                       *)

ImagesS ==
    Images({\H00, \H01, \H0F}, {0}, {\H8000})
        \cup Images({\H03, \H10, \H13}, {2}, {\H8000})
InstantsS == {0, 61}
RomAddrsS == {\H0000, \H4000}
RamAddrsS == {\H0000, \HA000}
CtlWritesS ==
    ({\H0000} \X {\H0A, \H00, \H1A})
        \cup ({\H2000} \X {\H80, \H05})
        \cup ({\H4000} \X {\H00, \H0C})
        \cup ({\H6000} \X {\H00, \H01})
RamWritesS == {<<\H0000, \H5A>>, <<\HA000, \H40>>}

Init == InitLive(ImagesS, {0})

Next ==
    \/ \E a \in RomAddrsS : ReadRom(a)
    \/ \E a \in RamAddrsS : ReadRam(a)
    \/ \E w \in CtlWritesS : WriteRom(w[1], w[2])
    \/ \E w \in RamWritesS : WriteRam(w[1], w[2])
    \/ \E t \in InstantsS : Tick(t)

Spec == Init /\ [][Next]_vars

----------------------------------------------------------------------------
(* SpecP: sessions one after another on a battery-backed cartridge: the    *)
(* image is loaded, driven over the bus, dropped, and loaded again from    *)
(* the save file the drop left                                             *)

ImagesP == Images({\H03, \H10, \H13}, {2}, {\H8000})
InstantsP == {0, 61}
RomAddrsP == {\H4000}
RamAddrsP == {\H0000}
CtlWritesP == {<<\H0000, \H0A>>, <<\H4000, \H0C>>, <<\H6000, \H01>>}
RamWritesP == {<<\H0000, \H5A>>}

InitP == InitUnloaded(ImagesP, {0})

NextP ==
    \/ Load
    \/ \E a \in RomAddrsP : ReadRom(a)
    \/ \E a \in RamAddrsP : ReadRam(a)
    \/ \E w \in CtlWritesP : WriteRom(w[1], w[2])
    \/ \E w \in RamWritesP : WriteRam(w[1], w[2])
    \/ \E t \in InstantsP : Tick(t)
    \/ Drop

SpecP == InitP /\ [][NextP]_vars

----------------
(* SpecL: the loader on every image: cartridge types on both sides of each *)
(* boundary of get_mbc's match, every ram-size code of the table and one   *)
(* outside it, and lengths on both sides of the loader's length test       *)

TypesL ==
    {\H00, \H01, \H02, \H03, \H04, \H0E, \H0F, \H10, \H11, \H12, \H13, \H14, \HFF}
CodesL == {0, 1, 2, 3, 4}
LensL == {\H148, \H149, \H14A, \H8000}
ImagesL == Images(TypesL, CodesL, LensL)
CtlWritesL == {<<\H0000, \H0A>>}
RamWritesL == {<<\H0000, \H5A>>}

InitL == InitUnloaded(ImagesL, {0})

NextL ==
    \/ Load
    \/ \E w \in CtlWritesL : WriteRom(w[1], w[2])
    \/ \E w \in RamWritesL : WriteRam(w[1], w[2])
    \/ Drop

SpecL == InitL /\ [][NextL]_vars

----------------------------------------------------------------------------
(* SpecE: one session on an MBC1 and on an MBC3, both with 0x8000 bytes of  *)
(* ram, driven with addresses at both ends of every control window and     *)
(* beyond the last, with bank values on both sides of the ram banks and of *)
(* the clock registers, and with ram addresses inside and outside the      *)
(* 0x2000 bytes of a bank                                                  *)

ImagesE == Images({\H03, \H10}, {3}, {\H8000})
RamAddrsE == {\H0000, \H2000, \HA000, \HBFFF}
CtlWritesE ==
    {<<\H0000, \H0A>>, <<\H1FFF, \H00>>, <<\H2000, \H00>>, <<\H3FFF, \HFF>>}
        \cup ({\H4000} \X {\H03, \H04, \H07, \H08, \H0C, \H0D})
        \cup {<<\H5FFF, \HFF>>, <<\H6000, \H00>>, <<\H6000, \HFF>>, <<\H7FFF, \H01>>}
        \cup ({\H8000, \HFFFF} \X {\H0A})
RamWritesE == {\H0000, \H2000, \HA000} \X {\H5A}

InitE == InitLive(ImagesE, {0})

NextE ==
    \/ \E a \in RamAddrsE : ReadRam(a)
    \/ \E w \in CtlWritesE : WriteRom(w[1], w[2])
    \/ \E w \in RamWritesE : WriteRam(w[1], w[2])

SpecE == InitE /\ [][NextE]_vars

----------------------------------------------------------------------------
(* SpecR: one session on a clock-capable MBC3 whose wall clock moves both  *)
(* ways: software writes the seconds and the flags register with values    *)
(* inside and outside a clock's ranges (0x3B = 59 seconds, or day bit 8    *)
(* with flag bits 1, 3, 4, 5; 0x81 = 129 seconds, or day bit 8 with the    *)
(* carry) and latches at instants before and after the 256- and 512-day    *)
(* marks                                                                   *)

ImagesR == Images({\H0F}, {0}, {\H8000})
InstantsR == {61, Days(300) + 3723, Days(600) + 86399}
CtlWritesR ==
    {<<\H0000, \H0A>>}
        \cup ({\H4000} \X {\H08, \H0C})
        \cup ({\H6000} \X {\H00, \H01})
RamWritesR == {\HA000} \X {\H3B, \H81}

InitR == InitLive(ImagesR, {0})

NextR ==
    \/ \E w \in CtlWritesR : WriteRom(w[1], w[2])
    \/ \E w \in RamWritesR : WriteRam(w[1], w[2])
    \/ \E t \in InstantsR : Tick(t)
    \/ \E t \in InstantsR : SetBack(t)

SpecR == InitR /\ [][NextR]_vars

----------------------------------------------------------------------------
(* SpecN: sessions one after another on a cartridge of every supported     *)
(* type, the first of them finding either no save file or the save file    *)
(* that a clock-capable cartridge left (epoch 61, 0x2000 bytes of ram)     *)

ImagesN ==
    Images({\H00, \H01, \H02, \H03, \H0F, \H10, \H11, \H12, \H13}, {2}, {\H8000})
FilesN == {<<>>, <<EpochThenRam(61, ZeroVec(\H2000))>>}
InstantsN == {61}
RamAddrsN == {\H0000}
CtlWritesN == {<<\H0000, \H0A>>, <<\H4000, \H0C>>, <<\H6000, \H01>>}
RamWritesN == {<<\H0000, \H1A>>}

InitN ==
    /\ image \in ImagesN
    /\ mbc = NoDevice
    /\ now = 0
    /\ file \in FilesN
    /\ phase = "unloaded"
    /\ ret = NoRet
    /\ err = "none"
    /\ lastEnable = <<>>
    /\ lastBank = <<>>
    /\ torn = <<>>
    /\ rtcWrites = 0
    /\ lastLatch = <<>>
    /\ written = <<>>

NextN ==
    \/ Load
    \/ \E a \in RamAddrsN : ReadRam(a)
    \/ \E w \in CtlWritesN : WriteRom(w[1], w[2])
    \/ \E w \in RamWritesN : WriteRam(w[1], w[2])
    \/ \E t \in InstantsN : Tick(t)
    \/ Drop

SpecN == InitN /\ [][NextN]_vars

----------------
(* Claims about MBC1's bank registers *)

Max(x, y) == IF x >= y THEN x ELSE y

IsLive(kind) == phase = "live" /\ mbc.kind = kind

\* C1: on an MBC1 a write of v to 0x2000-0x3FFF leaves rombank equal to its
\* previous bits 5-6 plus max(v mod 32, 1), and readrom at a >= 0x4000 returns
\* the image's byte at rombank * 0x4000 + (a mod 0x4000) (the bounds check
\* fails the task when the image has no such byte).
C1_RomBankSelect ==
    [][/\ \A w \in CtlWritesB :
            (IsLive("MBC1") /\ w[1] \in 8192..16383 /\ WriteRom(w[1], w[2]))
                => /\ phase' = "live"
                   /\ mbc'.rombank =
                        ((mbc.rombank \div 32) % 4) * 32 + Max(w[2] % 32, 1)
       /\ \A a \in RomAddrsB :
            (IsLive("MBC1") /\ a >= 16384 /\ ReadRom(a))
                => LET idx == mbc.rombank * 16384 + (a % 16384)
                   IN  IF idx < image.len
                       THEN phase' = "live" /\ ret' = RomAt(image, idx)
                       ELSE phase' = "failed" /\ err' = OobMsg
      ]_vars

\* C1's case: bank 0x22 (high bits 01, low bits 00010) is selected and a read
\* at 0x7FFF has returned the last byte of that bank
C1_Witness ==
    /\ IsLive("MBC1")
    /\ mbc.rombank = 34
    /\ image.len > 34 * 16384 + 16383
    /\ ret = RomFill(34 * 16384 + 16383)

\* C2: on an MBC1 a write of v to 0x4000-0x5FFF sets rambank to v mod 4 when
\* ram_mode is true and bits 5-6 of rombank to v mod 4 when it is false, and
\* changes nothing else of the device.
C2_BankHighRouting ==
    [][\A w \in CtlWritesB :
            (IsLive("MBC1") /\ w[1] \in 16384..24575 /\ WriteRom(w[1], w[2]))
                => /\ phase' = "live"
                   /\ mbc' = IF mbc.ram_mode
                             THEN [mbc EXCEPT !.rambank = w[2] % 4]
                             ELSE [mbc EXCEPT
                                    !.rombank = (@ % 32) + 32 * (w[2] % 4)]
      ]_vars

\* C2's case: both routes were taken: rombank has high bits from a write in
\* rom mode, and rambank was set in ram mode
C2_Witness ==
    /\ IsLive("MBC1")
    /\ mbc.ram_mode
    /\ mbc.rambank = 2
    /\ mbc.rombank = 34
    /\ mbc.ram_on

\* C18: on an MBC1 with ram enabled readram and writeram address the byte
\* (b * 0x2000) | a of the save memory, where b is rambank when ram_mode is
\* true and 0 when it is false (the bounds check fails the task when the
\* memory has no such byte); and a write of v to 0x6000-0x7FFF sets ram_mode
\* to bit 0 of v and changes nothing else of the device.
C18_EffectiveRamBank ==
    [][/\ \A a \in RamAddrsB :
            (IsLive("MBC1") /\ mbc.ram_on /\ ReadRam(a))
                => LET b == IF mbc.ram_mode THEN mbc.rambank ELSE 0
                       idx == BitOr(b * 8192, a)
                   IN  IF idx < mbc.ram.len
                       THEN phase' = "live" /\ ret' = VecGet(mbc.ram, idx)
                       ELSE phase' = "failed" /\ err' = OobMsg
       /\ \A w \in RamWritesB :
            (IsLive("MBC1") /\ mbc.ram_on /\ WriteRam(w[1], w[2]))
                => LET b == IF mbc.ram_mode THEN mbc.rambank ELSE 0
                       idx == BitOr(b * 8192, w[1])
                   IN  IF idx < mbc.ram.len
                       THEN /\ phase' = "live"
                            /\ mbc' = [mbc EXCEPT !.ram = VecSet(@, idx, w[2])]
                       ELSE phase' = "failed" /\ err' = OobMsg /\ mbc' = mbc
       /\ \A w \in CtlWritesB :
            (IsLive("MBC1") /\ w[1] \in 24576..32767 /\ WriteRom(w[1], w[2]))
                => /\ phase' = "live"
                   /\ mbc' = [mbc EXCEPT !.ram_mode = (w[2] % 2 = 1)]
      ]_vars

\* C18's case: 0x5A was stored at the last address of bank 2 in ram mode,
\* ram_mode was cleared with rambank still 2, and readram at that address
\* returned bank 0's byte, 0
C18_Witness ==
    /\ IsLive("MBC1")
    /\ mbc.ram_on
    /\ ~mbc.ram_mode
    /\ mbc.rambank = 2
    /\ VecGet(mbc.ram, 2 * 8192 + 8191) = 90
    /\ VecGet(mbc.ram, 8191) = 0
    /\ ret = 0

----------------------------------------------------------------------------
(* Claims about MBC3's latch and halt flag *)

\* the halt flag: bit 6 of the flags register rtc_ram[4]
Halted(d) == (d.rtc_ram[5] \div 64) % 2 = 1

\* C3: on an MBC3 no clock advance and no control write changes the five
\* clock registers, except a write of 1 to 0x6000-0x7FFF while rtc_lock is
\* false; a write of 0 there clears rtc_lock, a write of 1 sets it, any other
\* value leaves it; and readram with rambank in 8..12 returns the register.
C3_LatchedSnapshotStable ==
    [][/\ (IsLive("MBC3") /\ mbc' # NoDevice /\ mbc'.rtc_ram # mbc.rtc_ram
                /\ rtcWrites' = rtcWrites)
            => /\ ~mbc.rtc_lock
               /\ mbc'.rtc_lock
               /\ lastLatch' = <<now>>
               /\ \E w \in CtlWritesC :
                    w[1] \in 24576..32767 /\ w[2] = 1 /\ WriteRom(w[1], w[2])
       /\ \A w \in CtlWritesC :
            (IsLive("MBC3") /\ w[1] \in 24576..32767 /\ WriteRom(w[1], w[2]))
                => mbc'.rtc_lock = (CASE w[2] = 0 -> FALSE
                                      [] w[2] = 1 -> TRUE
                                      [] OTHER -> mbc.rtc_lock)
       /\ \A a \in RamAddrsC :
            (IsLive("MBC3") /\ mbc.ram_on /\ mbc.rambank \in 8..12 /\ ReadRam(a))
                => ret' = mbc.rtc_ram[mbc.rambank - 7]
      ]_vars

\* C3's case: the snapshot taken at second 61 (1 minute, 1 second) is still
\* what readram returns for the seconds register 300 days later, after the
\* latch window was written again
C3_Witness ==
    /\ IsLive("MBC3")
    /\ mbc.rtc_zero = <<0>>
    /\ lastLatch = <<61>>
    /\ now = Days(300) + 3723
    /\ mbc.rtc_lock
    /\ mbc.rtc_ram = <<1, 1, 0, 0, 0>>
    /\ mbc.ram_on /\ mbc.rambank = 8
    /\ ret = 1

\* C4: on an MBC3 whose halt flag is set, a write of 1 to 0x6000-0x7FFF while
\* rtc_lock is false (a register derivation) leaves the five clock registers
\* and rtc_zero unchanged, whatever the instant.
C4_HaltFreezes ==
    [][\A w \in CtlWritesC :
            (IsLive("MBC3") /\ Halted(mbc) /\ LatchCalls(mbc, w[1], w[2])
                /\ WriteRom(w[1], w[2]))
                => /\ mbc'.rtc_ram = mbc.rtc_ram
                   /\ mbc'.rtc_zero = mbc.rtc_zero
      ]_vars

\* C4's case: the halt flag was written at second 61 (rtc_zero = 61 - 0), the
\* latch derived the registers 300 days later, and they did not move
C4_Witness ==
    /\ IsLive("MBC3")
    /\ mbc.rtc_zero = <<61>>
    /\ mbc.rtc_ram = <<0, 0, 0, 0, 64>>
    /\ lastLatch = <<Days(300) + 3723>>
    /\ now > Days(300) + 3723
    /\ mbc.rtc_lock

----------------------------------------------------------------------------
(* Claims about the ram gate and the bank invariant, on every kind *)

Banked(d) == d.kind \in {"MBC1", "MBC3"}

\* length of the device's save memory (MBC0 has none)
RamLen(d) == IF Banked(d) THEN d.ram.len ELSE 0

\* C5: a device whose save memory has length 0 returns 0 from every readram,
\* whether or not ram was enabled, and no readram fails.
C5_AbsentRamReadsZero ==
    [][\A a \in RamAddrsS :
            (phase = "live" /\ RamLen(mbc) = 0 /\ ReadRam(a))
                => phase' = "live" /\ ret' = 0
      ]_vars

\* C6: on an MBC1 or MBC3, ram_on is true exactly when the last value written
\* to 0x0000-0x1FFF was 0x0A (false before any such write); and while ram_on
\* is false readram returns 0 and writeram changes nothing of the device.
C6_RamGate ==
    /\ [](Banked(mbc) => (mbc.ram_on <=> lastEnable = <<10>>))
    /\ [][/\ \A a \in RamAddrsS :
                (phase = "live" /\ Banked(mbc) /\ ~mbc.ram_on /\ ReadRam(a))
                    => phase' = "live" /\ ret' = 0
          /\ \A w \in RamWritesS :
                (phase = "live" /\ Banked(mbc) /\ ~mbc.ram_on
                    /\ WriteRam(w[1], w[2]))
                    => phase' = "live" /\ mbc' = mbc
         ]_vars

\* C6's case: ram was enabled, a byte was stored, a value other than 0x0A
\* (0x1A) disabled ram again, and readram returned 0 for the stored byte
C6_Witness ==
    /\ phase = "live" /\ Banked(mbc)
    /\ lastEnable = <<26>>
    /\ ~mbc.ram_on
    /\ VecGet(mbc.ram, 0) = 90
    /\ ret = 0

\* C7: on an MBC1 or MBC3 rombank is at least 1 in every state.
C7_RomBankNeverZero == Banked(mbc) => mbc.rombank >= 1

\* C7's case: the last write to 0x2000-0x3FFF asked for bank 0 (0x80 has no
\* bit among the bank bits of either device), and rombank is 1
C7_Witness ==
    /\ Banked(mbc)
    /\ lastBank = <<128>>
    /\ mbc.rombank = 1

----------------------------------------------------------------------------
(* Claims about the save file *)

\* C8: a device loaded from the save file that the drop of a battery-backed
\* device just wrote has the same ram and, on a clock-capable MBC3, the same
\* rtc_zero, and calc_rtc_reg gives it the registers it would have given the
\* dropped device at that instant.  (Stated for the dropped devices the
\* round trip is about: save memory not empty, reference epoch not zero.)
C8_RoundTrip ==
    [][(torn # <<>> /\ Banked(torn[1]) /\ torn[1].savepath # <<>>
            /\ torn[1].ram.len > 0 /\ Load)
            => /\ phase' = "live"
               /\ mbc'.ram = torn[1].ram
               /\ (mbc'.kind = "MBC3" /\ torn[1].rtc_zero \notin {<<>>, <<0>>})
                    => /\ mbc'.rtc_zero = torn[1].rtc_zero
                       /\ calc_rtc_reg(mbc', now).rtc_ram
                            = calc_rtc_reg(torn[1], now).rtc_ram
      ]_vars

----------------------------------------------------------------------------
(* Claims about the loader *)

\* C9: get_mbc fails with "Rom size to small" on an image shorter than 0x149
\* bytes; otherwise type 0x00 gives an MBC0, 0x01-0x03 an MBC1, 0x0F-0x13 an
\* MBC3, and any other type fails with "Unsupported MBC type", no device
\* being made.
C9_LoaderDispatch ==
    [][Load =>
         IF image.len < 329
         THEN phase' = "failed" /\ err' = "Rom size to small" /\ mbc' = NoDevice
         ELSE CASE image.type = 0 -> phase' = "live" /\ mbc'.kind = "MBC0"
                [] image.type \in 1..3 -> phase' = "live" /\ mbc'.kind = "MBC1"
                [] image.type \in 15..19 -> phase' = "live" /\ mbc'.kind = "MBC3"
                [] OTHER -> /\ phase' = "failed"
                            /\ err' = "Unsupported MBC type"
                            /\ mbc' = NoDevice
      ]_vars

\* size of the save memory the header asks for
HeaderRamSize(data) ==
    IF data.type \in {2, 3, 16, 18, 19}
    THEN (CASE data.ramcode = 1 -> 2048
            [] data.ramcode = 2 -> 8192
            [] data.ramcode = 3 -> 32768
            [] OTHER -> 0)
    ELSE 0

\* C10: a device that get_mbc returns has save memory of the size the header
\* table gives (codes 1, 2, 3 -> 0x800, 0x2000, 0x8000 for types 0x02, 0x03,
\* 0x10, 0x12, 0x13; 0 otherwise), a save path exactly for types 0x03, 0x0F,
\* 0x10, 0x13, a reference epoch exactly for types 0x0F, 0x10, and rombank 1,
\* rambank 0, ram_on false and ram_mode / rtc_lock false.
C10_ConstructedConfig ==
    [][(Load /\ phase' = "live") =>
         /\ RamLen(mbc') = HeaderRamSize(image)
         /\ Banked(mbc') =>
              /\ (mbc'.savepath # <<>>) <=> image.type \in {3, 15, 16, 19}
              /\ mbc'.rombank = 1
              /\ mbc'.rambank = 0
              /\ ~mbc'.ram_on
         /\ mbc'.kind = "MBC0" => image.type \notin {3, 15, 16, 19}
         /\ mbc'.kind = "MBC1" => ~mbc'.ram_mode /\ image.type \notin {15, 16}
         /\ mbc'.kind = "MBC3" =>
              /\ ~mbc'.rtc_lock
              /\ mbc'.rtc_ram = <<0, 0, 0, 0, 0>>
              /\ (mbc'.rtc_zero # <<>>) <=> image.type \in {15, 16}
      ]_vars

\* C10's case: a type 0x13 image with ram-size code 3 was loaded: 0x8000 bytes
\* of save memory, a save path, no reference epoch, the registers at their
\* initial values
C10_Witness ==
    /\ phase = "live"
    /\ image.type = 19 /\ image.ramcode = 3
    /\ mbc.kind = "MBC3"
    /\ mbc.ram.len = 32768
    /\ mbc.savepath # <<>>
    /\ mbc.rtc_zero = <<>>
    /\ mbc.rombank = 1 /\ mbc.rambank = 0 /\ ~mbc.ram_on /\ ~mbc.rtc_lock
    /\ lastEnable = <<>>

\* cartridge types get_mbc dispatches on
SupportedTypes == {0, 1, 2, 3, 15, 16, 17, 18, 19}

\* C16: get_mbc constructs a device from every image of at least 0x149 bytes
\* whose type byte is supported: the bytes at 0x147 and 0x149 that
\* construction reads are inside such an image, so no load of it fails.
C16_HeaderPresent ==
    [][(Load /\ image.len >= 329 /\ image.type \in SupportedTypes)
            => /\ phase' = "live"
               /\ err' = "none"
               /\ mbc' # NoDevice
      ]_vars

----------------------------------------------------------------------------
(* Claims about addresses and bank values outside the expected ranges *)

\* C11: on an MBC1 or MBC3 a writerom to an address in 0x0000-0x7FFF does not
\* fail, whatever the value; a writerom to an address in 0x8000-0xFFFF fails
\* the task with the device's "Could not write" message and leaves every
\* field of the device (bank registers, ram gate, mode, lock, memories) as it
\* was.
C11_ControlWindows ==
    [][\A w \in CtlWritesE :
            (phase = "live" /\ Banked(mbc) /\ WriteRom(w[1], w[2]))
                => IF w[1] <= 32767
                   THEN phase' = "live" /\ err' = "none"
                   ELSE /\ phase' = "failed"
                        /\ err' = (IF mbc.kind = "MBC1"
                                   THEN "Could not write (MBC1)"
                                   ELSE "Could not write (MBC3)")
                        /\ mbc' = mbc
      ]_vars

\* C11's case: an MBC3 whose registers had all been moved by accepted writes
\* (to the last address of a window among them) failed on a write beyond
\* 0x7FFF and still holds them
C11_Witness ==
    /\ phase = "failed"
    /\ err = "Could not write (MBC3)"
    /\ mbc.kind = "MBC3"
    /\ mbc.ram_on /\ mbc.rombank = 127 /\ mbc.rambank = 3 /\ mbc.rtc_lock
    /\ VecGet(mbc.ram, 3 * 8192) = 90

\* C12: on an MBC3 with ram enabled, whatever value was written to
\* 0x4000-0x5FFF, a readram or writeram with rambank > 3 addresses one of the
\* five clock registers, rambank - 8 being in 0..4, and does not fail.
C12_RtcIndexInRange ==
    [][/\ \A a \in RamAddrsE :
            (IsLive("MBC3") /\ mbc.ram_on /\ mbc.rambank > 3 /\ ReadRam(a))
                => /\ mbc.rambank - 8 \in 0..4
                   /\ phase' = "live"
                   /\ ret' = mbc.rtc_ram[mbc.rambank - 7]
       /\ \A w \in RamWritesE :
            (IsLive("MBC3") /\ mbc.ram_on /\ mbc.rambank > 3
                /\ WriteRam(w[1], w[2]))
                => /\ mbc.rambank - 8 \in 0..4
                   /\ phase' = "live"
                   /\ mbc'.rtc_ram = [mbc.rtc_ram EXCEPT ![mbc.rambank - 7] = w[2]]
      ]_vars

\* C17: with ram enabled, an MBC1 in ram mode and an MBC3 with rambank <= 3
\* address the same byte of the save memory, rambank * 0x2000 +
\* (a mod 0x2000), for every address a: readram returns that byte and
\* writeram stores into it and into no other.
C17_MaskedSaveIndex ==
    [][/\ \A a \in RamAddrsE :
            (phase = "live" /\ Banked(mbc) /\ mbc.ram_on /\ mbc.rambank <= 3
                /\ (mbc.kind = "MBC1" => mbc.ram_mode) /\ ReadRam(a))
                => /\ phase' = "live"
                   /\ ret' = VecGet(mbc.ram, mbc.rambank * 8192 + (a % 8192))
       /\ \A w \in RamWritesE :
            (phase = "live" /\ Banked(mbc) /\ mbc.ram_on /\ mbc.rambank <= 3
                /\ (mbc.kind = "MBC1" => mbc.ram_mode) /\ WriteRam(w[1], w[2]))
                => /\ phase' = "live"
                   /\ mbc'.ram =
                        VecSet(mbc.ram, mbc.rambank * 8192 + (w[1] % 8192), w[2])
      ]_vars

----------------------------------------------------------------------------
(* Claims about the clock's two derivations *)

\* a step in which the latch of a clock-capable, non-halted MBC3 calls
\* calc_rtc_reg (a register derivation)
Derives ==
    /\ IsLive("MBC3")
    /\ mbc.rtc_zero # <<>>
    /\ ~Halted(mbc)
    /\ \E w \in CtlWritesR : LatchCalls(mbc, w[1], w[2]) /\ WriteRom(w[1], w[2])

\* the seconds, minutes, hours and day-low registers and bit 0 of the flags
TimeRegs(regs) == <<regs[1], regs[2], regs[3], regs[4], regs[5] % 2>>

\* C13 as claimed: after a writeram stored any byte into a clock register of
\* a clock-capable, non-halted MBC3, a register derivation at the same
\* instant leaves seconds, minutes, hours, day-low and flags bit 0 as the
\* write left them.
C13_AnyWrittenByteKept ==
    [][(Derives /\ written # <<>>)
            => TimeRegs(mbc'.rtc_ram) = TimeRegs(written[1])
      ]_vars

\* C13 as amended: the same, when the write left seconds <= 59, minutes <= 59
\* and hours <= 23 in the registers (day-low and the flags may hold any
\* byte with the halt bit clear).
C13_InRangeWrittenKept ==
    [][(Derives /\ written # <<>>
            /\ written[1][1] <= 59 /\ written[1][2] <= 59 /\ written[1][3] <= 23)
            => TimeRegs(mbc'.rtc_ram) = TimeRegs(written[1])
      ]_vars

\* C13's case: 300 days and 3723 seconds after construction software wrote 59
\* to the seconds register and 0x81 to the flags (day bit 8), and the
\* derivation at that instant kept both: the epoch had moved to 256 days and
\* 59 seconds before the instant
C13_Witness ==
    /\ IsLive("MBC3")
    /\ now = Days(300) + 3723
    /\ lastLatch = <<now>>
    /\ rtcWrites = 2
    /\ mbc.rtc_ram = <<59, 0, 0, 0, 129>>
    /\ mbc.rtc_zero = <<now - 59 - Days(256)>>
    /\ mbc.rtc_lock

\* C14: a register derivation on a clock-capable, non-halted MBC3 at instant
\* now, with e = max(0, now - rtc_zero) and days = e / 86400, sets seconds =
\* e mod 60, minutes = (e / 60) mod 60, hours = (e / 3600) mod 24, day-low =
\* days mod 256 and flags bit 0 = bit 8 of days, and leaves flags bits 1-6 as
\* they were (all four registers and bit 0 are 0 when now < rtc_zero).
C14_RegisterDerivation ==
    [][Derives =>
         LET e == Max(0, now - mbc.rtc_zero[1])
             days == e \div 86400
         IN  /\ mbc'.rtc_ram[1] = e % 60
             /\ mbc'.rtc_ram[2] = (e \div 60) % 60
             /\ mbc'.rtc_ram[3] = (e \div 3600) % 24
             /\ mbc'.rtc_ram[4] = days % 256
             /\ mbc'.rtc_ram[5] % 2 = (days \div 256) % 2
             /\ (mbc'.rtc_ram[5] \div 2) % 64 = (mbc.rtc_ram[5] \div 2) % 64
             /\ now < mbc.rtc_zero[1] => TimeRegs(mbc'.rtc_ram) = <<0, 0, 0, 0, 0>>
      ]_vars

\* C14's case: the flags were written 0x3B at day 300 (the epoch moved to 256
\* days before), the wall clock was set back to second 61, before the epoch,
\* and the derivation there zeroed the time registers and bit 0 and kept
\* bits 1, 3, 4, 5 of the flags
C14_Witness ==
    /\ IsLive("MBC3")
    /\ now = 61
    /\ lastLatch = <<61>>
    /\ mbc.rtc_zero # <<>>
    /\ mbc.rtc_zero[1] = Days(300) + 3723 - Days(256)
    /\ mbc.rtc_ram = <<0, 0, 0, 0, 58>>

\* the carry: bit 7 of the flags register
CarrySet(d) == d.rtc_ram[5] >= 128

\* a step in which a writeram stores into the flags register
WritesFlags == IsLive("MBC3") /\ mbc.ram_on /\ mbc.rambank = 12 /\ rtcWrites' # rtcWrites

\* C15: a register derivation on a clock-capable, non-halted MBC3 that finds
\* days >= 512 sets the carry (flags bit 7) and rebases rtc_zero to now -
\* seconds - 60 * minutes - 3600 * hours - 86400 * (days mod 512); and once
\* the carry is set, every step other than a writeram to the flags register
\* (derivations and clock movements among them) leaves it set.
C15_CarrySetAndSticky ==
    [][/\ Derives =>
            LET e == Max(0, now - mbc.rtc_zero[1])
                days == e \div 86400
            IN  days >= 512
                    => /\ CarrySet(mbc')
                       /\ mbc'.rtc_zero =
                            <<now - (e % 60) - 60 * ((e \div 60) % 60)
                                - 3600 * ((e \div 3600) % 24)
                                - 86400 * (days % 512)>>
       /\ (IsLive("MBC3") /\ CarrySet(mbc) /\ ~WritesFlags) => CarrySet(mbc')
      ]_vars

\* C15's case: with the epoch at 0 the derivation at day 600, 23:59:59 set
\* the carry and moved the epoch to day 512; the clock then went to second
\* 61 and a later derivation there kept the carry
C15_Witness ==
    /\ IsLive("MBC3")
    /\ rtcWrites = 0
    /\ mbc.rtc_zero = <<Days(512)>>
    /\ now = 61
    /\ lastLatch = <<61>>
    /\ mbc.rtc_ram = <<0, 0, 0, 0, 128>>

----------------------------------------------------------------------------
(* Claims about the sessions of a cartridge and its save file *)

\* the image is of a clock-incapable MBC3
NoClock == image.type \in {17, 18, 19}

\* cartridge types with a save path
SavePathTypes == {3, 15, 16, 19}

\* the eight bytes at the head of a save file are those of the epoch e, with
\* 0 <= e < 2^31, most significant first
HeadIsEpoch(bytes, e) ==
    /\ \A k \in 0..3 : VecGet(bytes, k) = 0
    /\ VecGet(bytes, 4) = (e \div 16777216) % 256
    /\ VecGet(bytes, 5) = (e \div 65536) % 256
    /\ VecGet(bytes, 6) = (e \div 256) % 256
    /\ VecGet(bytes, 7) = e % 256

\* the bytes of a save file from offset n on are those of ram
TailIsRam(bytes, n, ram) ==
    /\ bytes.len = n + ram.len
    /\ {p \in bytes.nz : p[1] >= n} = {<<q[1] + n, q[2]>> : q \in ram.nz}

\* C19: a clock-incapable MBC3 (types 0x11, 0x12, 0x13) never has a
\* reference epoch, also when it was constructed from a save file that holds
\* one; its clock registers change only by a writeram that stores into one
\* of them (never by the latch or the clock) and readram returns what was
\* stored; and its drop, when it has a save path, writes 8 zero bytes (epoch
\* 0) followed by the ram.
C19_EpochStaysAbsent ==
    /\ []((NoClock /\ mbc # NoDevice) => mbc.rtc_zero = <<>>)
    /\ [][/\ (NoClock /\ phase = "live" /\ mbc' # NoDevice
                /\ mbc'.rtc_ram # mbc.rtc_ram)
                => /\ WritesRtc(mbc)
                   /\ \E w \in RamWritesN :
                        /\ WriteRam(w[1], w[2])
                        /\ mbc'.rtc_ram =
                                [mbc.rtc_ram EXCEPT ![mbc.rambank - 7] = w[2]]
          /\ \A a \in RamAddrsN :
                (NoClock /\ phase = "live" /\ mbc.ram_on /\ mbc.rambank \in 8..12
                    /\ ReadRam(a))
                    => ret' = mbc.rtc_ram[mbc.rambank - 7]
          /\ (NoClock /\ Load) => phase' = "live" /\ mbc'.rtc_zero = <<>>
          /\ (NoClock /\ Drop)
                => IF image.type = 19
                   THEN /\ file' # <<>>
                        /\ HeadIsEpoch(file'[1], 0)
                        /\ TailIsRam(file'[1], 8, mbc.ram)
                   ELSE file' = file
         ]_vars

\* C19's case: a type 0x13 cartridge was constructed while the save file held
\* epoch 61; software stored 0x1A (halt clear) into the flags, and a latch
\* at second 61 left the registers as written
C19_Witness ==
    /\ image.type = 19
    /\ phase = "live"
    /\ file # <<>> /\ VecGet(file[1], 7) = 61
    /\ mbc.rtc_zero = <<>>
    /\ mbc.rtc_ram = <<0, 0, 0, 0, 26>>
    /\ now = 61
    /\ lastLatch = <<61>>
    /\ mbc.rtc_lock
    /\ ret = 26

\* C20: the save file changes only in the step that drops a device with a
\* save path (types 0x03, 0x0F, 0x10, 0x13), never in a bus call; that step
\* ends the session and leaves in the file the ram of the device's last
\* state, after the 8 bytes of the epoch (0 when absent) on an MBC3; the drop
\* of a device without a save path leaves the file as it was, and such a
\* device is constructed with zeroed ram whatever the file holds.
C20_SavedOnceAtTeardown ==
    [][/\ file' # file
            => /\ phase \in {"live", "failed"}
               /\ phase' = "unloaded"
               /\ torn' = <<mbc>>
               /\ image.type \in SavePathTypes
       /\ Drop
            => /\ mbc' = NoDevice
               /\ IF image.type \in SavePathTypes
                  THEN /\ file' # <<>>
                       /\ mbc.kind = "MBC1" => file'[1] = mbc.ram
                       /\ mbc.kind = "MBC3" =>
                            /\ HeadIsEpoch(file'[1],
                                    IF mbc.rtc_zero = <<>> THEN 0 ELSE mbc.rtc_zero[1])
                            /\ TailIsRam(file'[1], 8, mbc.ram)
                  ELSE file' = file
       /\ (Load /\ image.type \notin SavePathTypes)
            => /\ phase' = "live"
               /\ Banked(mbc') =>
                    /\ mbc'.savepath = <<>>
                    /\ mbc'.ram = [len |-> HeaderRamSize(image), nz |-> {}]
      ]_vars

\* C20's case: the drop of a type 0x10 cartridge, whose epoch a write to the
\* flags had moved to second 61 and whose ram held 0x1A at offset 0, left a
\* file of 8 + 0x2000 bytes: the epoch, then the ram
C20_Witness ==
    /\ phase = "unloaded"
    /\ image.type = 16
    /\ torn # <<>>
    /\ torn[1].rtc_zero = <<61>>
    /\ VecGet(torn[1].ram, 0) = 26
    /\ file # <<>>
    /\ file[1].len = 8 + 8192
    /\ VecGet(file[1], 7) = 61
    /\ VecGet(file[1], 8) = 26

====
